---- MODULE Spec2Model ----
(***************************************************************************)
(* Model of pack_items, the first-fit-decreasing packing routine of        *)
(* ai_agent_tutorials/ULIP/Container Planning/Containerplanning.py.        *)
(* One run of pack_items is a state machine: pc is the position in the     *)
(* function body, the other variables are its arguments and locals.        *)
(* A second call, with arguments and locals of its own, may be in progress *)
(* at the same time: parked holds the frame of the call that is not        *)
(* running at the moment.  app is the Streamlit page around the routine:   *)
(* its input widgets and what the button handler has done.                 *)
(***************************************************************************)
EXTENDS Integers, Sequences, FiniteSets, TLC

VARIABLES pc, L_c, W_c, H_c, W_max, items, volume_capacity, unfit_items,
          sorted_items, containers, idx, scan, added, result, parked, app

vars == <<pc, L_c, W_c, H_c, W_max, items, volume_capacity, unfit_items,
          sorted_items, containers, idx, scan, added, result, parked,
          app>>

(***************************************************************************)
(* Bounds of the explored inputs.                                          *)
(***************************************************************************)
MaxItems == 3
MaxWeight == 2

\* (length, width, height) of the items a caller may pass
ItemShapes ==
  { <<0, 1, 1>>, <<1, 1, 1>>, <<2, 1, 1>>, <<1, 2, 1>>, <<2, 2, 2>> }

ItemWeights == 1 .. MaxWeight

\* (L_c, W_c, H_c, W_max) of the container a caller may pass
ContainerSpecs ==
  { <<2, 2, 2, 3>>, <<2, 2, 1, 3>>, <<2, 2, 1, 1>>, <<1, 2, 1, 2>>,
    <<0, 1, 1, 1>>, <<2, 2, -1, 0>> }

\* the app's default container (10 x 10 x 10, weight capacity 100) with its
\* default items A, B, C, with two items of volume 600, and with an item
\* longer than the container
ScenarioContainer == <<10, 10, 10, 100>>
ScenarioABC ==
  << [id |-> 1, length |-> 2, width |-> 3, height |-> 4, weight |-> 10],
     [id |-> 2, length |-> 5, width |-> 5, height |-> 5, weight |-> 20],
     [id |-> 3, length |-> 3, width |-> 3, height |-> 3, weight |-> 15] >>
ScenarioTwo600 ==
  << [id |-> 1, length |-> 10, width |-> 10, height |-> 6, weight |-> 10],
     [id |-> 2, length |-> 10, width |-> 10, height |-> 6, weight |-> 10] >>
ScenarioTooLong ==
  << [id |-> 1, length |-> 11, width |-> 1, height |-> 1, weight |-> 1] >>

\* how the caller numbers the items: unique ids (descending, so that an id
\* differs from the item's position) or one id repeated
IdModes == {"unique", "repeated"}

IdOf(mode, k, n) == IF mode = "unique" THEN n + 1 - k ELSE 1

ItemBodies == ItemShapes \X ItemWeights

MkItem(mode, k, n, body) ==
  [id |-> IdOf(mode, k, n), length |-> body[1][1], width |-> body[1][2],
   height |-> body[1][3], weight |-> body[2]]

ItemLists ==
  UNION { { [k \in 1 .. n |-> MkItem(mode, k, n, bodies[k])] :
              bodies \in [1 .. n -> ItemBodies], mode \in IdModes } :
          n \in 0 .. MaxItems }

\* the calls explored: (container, items)
Calls ==
  (ContainerSpecs \X ItemLists)
    \cup ({ScenarioContainer} \X {ScenarioABC, ScenarioTwo600, ScenarioTooLong})

(***************************************************************************)
(* Helpers of pack_items.                                                  *)
(***************************************************************************)
\* line 20: item['volume'] = item['length'] * item['width'] * item['height']
WithVolume(item) ==
  [id |-> item.id, length |-> item.length, width |-> item.width,
   height |-> item.height, weight |-> item.weight,
   volume |-> item.length * item.width * item.height]

\* variant of IsUnfit: the comparison made inclusive
IsUnfitInclusive(item) ==
  item.length >= L_c \/ item.width >= W_c \/ item.height >= H_c

\* variant of IsUnfit: an item heavier than the weight capacity is unfit too
IsUnfitOrHeavy(item) ==
  \/ item.length > L_c \/ item.width > W_c \/ item.height > H_c
  \/ item.weight > W_max

\* line 22: the filter of the unfit list comprehension
IsUnfit(item) ==
  item.length > L_c \/ item.width > W_c \/ item.height > H_c

\* line 26: sorted(items, key=volume, reverse=True) is stable: items of equal
\* volume keep their input order.  Insert x behind every element whose
\* volume is >= x's.
\* variant of InsertDesc: x goes in front of the elements of equal volume
RECURSIVE InsertDescUnstable(_, _)
InsertDescUnstable(s, x) ==
  IF s = << >> THEN << x >>
  ELSE IF Head(s).volume > x.volume
       THEN << Head(s) >> \o InsertDescUnstable(Tail(s), x)
       ELSE << x >> \o s

RECURSIVE InsertDesc(_, _)
InsertDesc(s, x) ==
  IF s = << >> THEN << x >>
  ELSE IF Head(s).volume >= x.volume
       THEN << Head(s) >> \o InsertDesc(Tail(s), x)
       ELSE << x >> \o s

RECURSIVE SortedDesc(_)
SortedDesc(s) ==
  IF s = << >> THEN << >>
  ELSE InsertDesc(SortedDesc(SubSeq(s, 1, Len(s) - 1)), s[Len(s)])

\* variant of Qualifies: both comparisons strict
QualifiesStrict(container, item) ==
  /\ container.current_volume + item.volume < volume_capacity
  /\ container.current_weight + item.weight < W_max

\* variant of Qualifies: room in volume or in weight is enough
QualifiesEither(container, item) ==
  \/ container.current_volume + item.volume <= volume_capacity
  \/ container.current_weight + item.weight <= W_max

\* variant of Qualifies: the weight is not looked at
QualifiesVolumeOnly(container, item) ==
  container.current_volume + item.volume <= volume_capacity

\* lines 31-32: the test of the inner loop
Qualifies(container, item) ==
  /\ container.current_volume + item.volume <= volume_capacity
  /\ container.current_weight + item.weight <= W_max

\* variant of AddItem: the totals grow but the id is not recorded
AddItemNoId(container, item) ==
  [container EXCEPT !.current_volume = @ + item.volume,
                    !.current_weight = @ + item.weight]

\* variant of AddItem: the id is put in front of the list
AddItemFront(container, item) ==
  [container EXCEPT !.items = << item.id >> \o @,
                    !.current_volume = @ + item.volume,
                    !.current_weight = @ + item.weight]

\* variant of AddItem: the capacity shown is the room that is left
AddItemShrinkCapacity(container, item) ==
  [container EXCEPT !.items = Append(@, item.id),
                    !.current_volume = @ + item.volume,
                    !.current_weight = @ + item.weight,
                    !.volume_capacity = @ - item.volume]

\* variant of AddItem: the weight total is not updated
AddItemNoWeight(container, item) ==
  [container EXCEPT !.items = Append(@, item.id),
                    !.current_volume = @ + item.volume]

\* lines 33-35: the container after it took the item
AddItem(container, item) ==
  [container EXCEPT !.items = Append(@, item.id),
                    !.current_volume = @ + item.volume,
                    !.current_weight = @ + item.weight]

\* variant of NewContainer: the running totals start at zero
NewContainerEmptyTotals(cs, item) ==
  [id |-> Len(cs) + 1,
   items |-> << item.id >>,
   current_volume |-> 0,
   current_weight |-> 0,
   volume_capacity |-> volume_capacity,
   weight_capacity |-> W_max]

\* variant of NewContainer: ids counted from zero
NewContainerZeroBased(cs, item) ==
  [id |-> Len(cs),
   items |-> << item.id >>,
   current_volume |-> item.volume,
   current_weight |-> item.weight,
   volume_capacity |-> volume_capacity,
   weight_capacity |-> W_max]

\* lines 39-46: the container opened for an item
NewContainer(cs, item) ==
  [id |-> Len(cs) + 1,
   items |-> << item.id >>,
   current_volume |-> item.volume,
   current_weight |-> item.weight,
   volume_capacity |-> volume_capacity,
   weight_capacity |-> W_max]

(***************************************************************************)
(* The run.                                                                *)
(***************************************************************************)
\* what the run returned: returned is FALSE while it is running; none says
\* that the first component of the returned pair is None, otherwise it is
\* the list in containers
Pending ==
  [returned |-> FALSE, none |-> FALSE, containers |-> << >>,
   unfit_items |-> << >>]

\* no second call
NoFrame == [pc |-> "none"]

\* pack_items called directly, without the page
NoApp == [stage |-> "none"]

Init ==
  /\ pc = "call"
  /\ \E call \in Calls :
       /\ L_c = call[1][1]
       /\ W_c = call[1][2]
       /\ H_c = call[1][3]
       /\ W_max = call[1][4]
       /\ items = call[2]
  /\ volume_capacity = 0
  /\ unfit_items = << >>
  /\ sorted_items = << >>
  /\ containers = << >>
  /\ idx = 0
  /\ scan = 0
  /\ added = FALSE
  /\ result = Pending
  /\ parked = NoFrame
  /\ app = NoApp

\* variant of Annotate: a volume already present on an item is kept
AnnotateMissingOnly ==
  /\ pc = "call"
  /\ volume_capacity' = L_c * W_c * H_c
  /\ items' = [k \in 1 .. Len(items) |->
                IF "volume" \in DOMAIN items[k] THEN items[k]
                                                ELSE WithVolume(items[k])]
  /\ pc' = "classify"
  /\ UNCHANGED <<parked, app>>
  /\ UNCHANGED <<L_c, W_c, H_c, W_max, unfit_items, sorted_items, containers,
                 idx, scan, added, result>>

\* lines 18-20: the capacity, and the volume attached to every item
Annotate ==
  /\ pc = "call"
  /\ volume_capacity' = L_c * W_c * H_c
  /\ items' = [k \in 1 .. Len(items) |-> WithVolume(items[k])]
  /\ pc' = "classify"
  /\ UNCHANGED <<parked, app>>
  /\ UNCHANGED <<L_c, W_c, H_c, W_max, unfit_items, sorted_items, containers,
                 idx, scan, added, result>>

\* line 22: the unfit list
Classify ==
  /\ pc = "classify"
  /\ unfit_items' = SelectSeq(items, IsUnfit)
  /\ pc' = "check_unfit"
  /\ UNCHANGED <<parked, app>>
  /\ UNCHANGED <<L_c, W_c, H_c, W_max, items, volume_capacity, sorted_items,
                 containers, idx, scan, added, result>>

\* variant of ReturnUnfit: an empty list is returned in place of None
ReturnUnfitEmptyList ==
  /\ pc = "check_unfit"
  /\ unfit_items # << >>
  /\ result' = [returned |-> TRUE, none |-> FALSE, containers |-> << >>,
                unfit_items |-> unfit_items]
  /\ pc' = "done"
  /\ UNCHANGED <<parked, app>>
  /\ UNCHANGED <<L_c, W_c, H_c, W_max, items, volume_capacity, unfit_items,
                 sorted_items, containers, idx, scan, added>>

\* lines 23-24: return None, unfit_items
ReturnUnfit ==
  /\ pc = "check_unfit"
  /\ unfit_items # << >>
  /\ result' = [returned |-> TRUE, none |-> TRUE, containers |-> << >>,
                unfit_items |-> unfit_items]
  /\ pc' = "done"
  /\ UNCHANGED <<parked, app>>
  /\ UNCHANGED <<L_c, W_c, H_c, W_max, items, volume_capacity, unfit_items,
                 sorted_items, containers, idx, scan, added>>

\* variant of Sort: packing goes on although items are unfit
SortDespiteUnfit ==
  /\ pc = "check_unfit"
  /\ sorted_items' = SortedDesc(items)
  /\ containers' = << >>
  /\ pc' = "next_item"
  /\ UNCHANGED <<parked, app>>
  /\ UNCHANGED <<L_c, W_c, H_c, W_max, items, volume_capacity, unfit_items,
                 idx, scan, added, result>>

\* a sort that is not stable: equal volumes come out in reverse input order
RECURSIVE SortedDescUnstable(_)
SortedDescUnstable(s) ==
  IF s = << >> THEN << >>
  ELSE InsertDescUnstable(SortedDescUnstable(SubSeq(s, 1, Len(s) - 1)),
                          s[Len(s)])

\* variant of Sort: a sort routine that may or may not keep the input order
\* of equal volumes
SortAnyTies ==
  /\ pc = "check_unfit"
  /\ unfit_items = << >>
  /\ sorted_items' \in {SortedDesc(items), SortedDescUnstable(items)}
  /\ containers' = << >>
  /\ pc' = "next_item"
  /\ UNCHANGED <<parked, app>>
  /\ UNCHANGED <<L_c, W_c, H_c, W_max, items, volume_capacity, unfit_items,
                 idx, scan, added, result>>

\* s back to front
Reversed(s) == [k \in 1 .. Len(s) |-> s[Len(s) + 1 - k]]

\* variant of Sort: reverse=True left out, the volumes ascend
SortAscending ==
  /\ pc = "check_unfit"
  /\ unfit_items = << >>
  /\ sorted_items' = Reversed(SortedDescUnstable(items))
  /\ containers' = << >>
  /\ pc' = "next_item"
  /\ UNCHANGED <<parked, app>>
  /\ UNCHANGED <<L_c, W_c, H_c, W_max, items, volume_capacity, unfit_items,
                 idx, scan, added, result>>

\* variant of Sort: the items are taken in the caller's order
SortSkipped ==
  /\ pc = "check_unfit"
  /\ unfit_items = << >>
  /\ sorted_items' = items
  /\ containers' = << >>
  /\ pc' = "next_item"
  /\ UNCHANGED <<parked, app>>
  /\ UNCHANGED <<L_c, W_c, H_c, W_max, items, volume_capacity, unfit_items,
                 idx, scan, added, result>>

\* variant of Sort: the caller's list is sorted in place (items.sort)
SortInPlace ==
  /\ pc = "check_unfit"
  /\ unfit_items = << >>
  /\ items' = SortedDesc(items)
  /\ sorted_items' = SortedDesc(items)
  /\ containers' = << >>
  /\ pc' = "next_item"
  /\ UNCHANGED <<parked, app>>
  /\ UNCHANGED <<L_c, W_c, H_c, W_max, volume_capacity, unfit_items,
                 idx, scan, added, result>>

\* lines 26-27: the sorted copy and the empty container list
Sort ==
  /\ pc = "check_unfit"
  /\ unfit_items = << >>
  /\ sorted_items' = SortedDesc(items)
  /\ containers' = << >>
  /\ pc' = "next_item"
  /\ UNCHANGED <<parked, app>>
  /\ UNCHANGED <<L_c, W_c, H_c, W_max, items, volume_capacity, unfit_items,
                 idx, scan, added, result>>

\* variant of NextItem: a loop that takes an item without moving on
NextItemRepeat ==
  /\ pc = "next_item"
  /\ idx < Len(sorted_items)
  /\ idx' = IF idx = 0 THEN 1 ELSE idx
  /\ added' = FALSE
  /\ scan' = 1
  /\ pc' = "scan"
  /\ UNCHANGED <<parked, app>>
  /\ UNCHANGED <<L_c, W_c, H_c, W_max, items, volume_capacity, unfit_items,
                 sorted_items, containers, result>>

\* variant of NextItem: the scan starts at the second container
NextItemScanFromSecond ==
  /\ pc = "next_item"
  /\ idx < Len(sorted_items)
  /\ idx' = idx + 1
  /\ added' = FALSE
  /\ scan' = 2
  /\ pc' = "scan"
  /\ UNCHANGED <<parked, app>>
  /\ UNCHANGED <<L_c, W_c, H_c, W_max, items, volume_capacity, unfit_items,
                 sorted_items, containers, result>>

\* lines 28-29: the next item of the outer loop
NextItem ==
  /\ pc = "next_item"
  /\ idx < Len(sorted_items)
  /\ idx' = idx + 1
  /\ added' = FALSE
  /\ scan' = 1
  /\ pc' = "scan"
  /\ UNCHANGED <<parked, app>>
  /\ UNCHANGED <<L_c, W_c, H_c, W_max, items, volume_capacity, unfit_items,
                 sorted_items, containers, result>>

\* variant of ScanSkip: a container is passed over whatever the test says
ScanSkipAny ==
  /\ pc = "scan"
  /\ scan <= Len(containers)
  /\ scan' = scan + 1
  /\ UNCHANGED <<parked, app>>
  /\ UNCHANGED <<pc, L_c, W_c, H_c, W_max, items, volume_capacity,
                 unfit_items, sorted_items, containers, idx, added, result>>

\* lines 30-32, test failed: on to the next container
ScanSkip ==
  /\ pc = "scan"
  /\ scan <= Len(containers)
  /\ ~ Qualifies(containers[scan], sorted_items[idx])
  /\ scan' = scan + 1
  /\ UNCHANGED <<parked, app>>
  /\ UNCHANGED <<pc, L_c, W_c, H_c, W_max, items, volume_capacity,
                 unfit_items, sorted_items, containers, idx, added, result>>

\* lines 30-37, test passed: the container takes the item, break
ScanPlace ==
  /\ pc = "scan"
  /\ scan <= Len(containers)
  /\ Qualifies(containers[scan], sorted_items[idx])
  /\ containers' = [containers EXCEPT
                      ![scan] = AddItem(containers[scan], sorted_items[idx])]
  /\ added' = TRUE
  /\ pc' = "after_scan"
  /\ UNCHANGED <<parked, app>>
  /\ UNCHANGED <<L_c, W_c, H_c, W_max, items, volume_capacity, unfit_items,
                 sorted_items, idx, scan, result>>

\* line 30: the inner loop ran out of containers
ScanEnd ==
  /\ pc = "scan"
  /\ scan > Len(containers)
  /\ pc' = "after_scan"
  /\ UNCHANGED <<parked, app>>
  /\ UNCHANGED <<L_c, W_c, H_c, W_max, items, volume_capacity, unfit_items,
                 sorted_items, containers, idx, scan, added, result>>

\* lines 38-47: if not added, a new container is appended
OpenContainer ==
  /\ pc = "after_scan"
  /\ ~ added
  /\ containers' = Append(containers, NewContainer(containers, sorted_items[idx]))
  /\ pc' = "next_item"
  /\ UNCHANGED <<parked, app>>
  /\ UNCHANGED <<L_c, W_c, H_c, W_max, items, volume_capacity, unfit_items,
                 sorted_items, idx, scan, added, result>>

\* line 38, added: nothing to open
KeepContainers ==
  /\ pc = "after_scan"
  /\ added
  /\ pc' = "next_item"
  /\ UNCHANGED <<parked, app>>
  /\ UNCHANGED <<L_c, W_c, H_c, W_max, items, volume_capacity, unfit_items,
                 sorted_items, containers, idx, scan, added, result>>

\* variant of ReturnContainers: return containers or None, []
ReturnContainersOrNone ==
  /\ pc = "next_item"
  /\ idx >= Len(sorted_items)
  /\ result' = [returned |-> TRUE, none |-> (containers = << >>),
                containers |-> containers, unfit_items |-> << >>]
  /\ pc' = "done"
  /\ UNCHANGED <<parked, app>>
  /\ UNCHANGED <<L_c, W_c, H_c, W_max, items, volume_capacity, unfit_items,
                 sorted_items, containers, idx, scan, added>>

\* line 48: return containers, []
ReturnContainers ==
  /\ pc = "next_item"
  /\ idx >= Len(sorted_items)
  /\ result' = [returned |-> TRUE, none |-> FALSE,
                containers |-> containers, unfit_items |-> << >>]
  /\ pc' = "done"
  /\ UNCHANGED <<parked, app>>
  /\ UNCHANGED <<L_c, W_c, H_c, W_max, items, volume_capacity, unfit_items,
                 sorted_items, containers, idx, scan, added>>

Next ==
  \/ Annotate
  \/ Classify
  \/ ReturnUnfit
  \/ Sort
  \/ NextItem
  \/ ScanSkip
  \/ ScanPlace
  \/ ScanEnd
  \/ OpenContainer
  \/ KeepContainers
  \/ ReturnContainers

Spec == Init /\ [][Next]_vars

(***************************************************************************)
(* Two calls in progress.  pack_items keeps everything in its arguments    *)
(* and locals, so a call is its frame; the scheduler may leave one call    *)
(* and resume the other between any two steps.                             *)
(***************************************************************************)
MaxPairItems == 2

PairShapes == { <<1, 1, 1>>, <<2, 1, 1>>, <<2, 2, 2>> }

PairContainers == { <<2, 2, 1, 3>>, <<2, 2, 1, 1>> }

PairLists ==
  UNION { { [k \in 1 .. n |-> MkItem("unique", k, n, bodies[k])] :
              bodies \in [1 .. n -> PairShapes \X ItemWeights] } :
          n \in 0 .. MaxPairItems }

\* calls on item lists of their own, whatever the first call is
OtherCalls ==
  { << <<2, 2, 1, 1>>,
       << [id |-> 11, length |-> 2, width |-> 1, height |-> 1, weight |-> 2],
          [id |-> 12, length |-> 2, width |-> 2, height |-> 2, weight |-> 1] >> >>,
    << <<2, 2, 1, 3>>,
       << [id |-> 11, length |-> 1, width |-> 1, height |-> 1, weight |-> 2],
          [id |-> 12, length |-> 2, width |-> 1, height |-> 1, weight |-> 1],
          [id |-> 13, length |-> 1, width |-> 2, height |-> 1, weight |-> 2] >> >> }

\* the lists that hold the elements of list in some order
Reordered(list) ==
  { [k \in 1 .. Len(list) |-> list[p[k]]] :
      p \in { f \in [1 .. Len(list) -> 1 .. Len(list)] :
                \A a, b \in 1 .. Len(list) : f[a] = f[b] => a = b } }

\* the second call repeats the first one on an equal list, or is another
\* one, or has the items of the first one in another order
CallPairs ==
  { << c, c >> : c \in PairContainers \X PairLists }
    \cup ((PairContainers \X PairLists) \X OtherCalls)
    \cup UNION { { << c, << c[1], list >> >> : list \in Reordered(c[2]) } :
                 c \in PairContainers \X PairLists }

\* the frame of a call that has not executed anything yet
NewFrame(call) ==
  [pc |-> "call", L_c |-> call[1][1], W_c |-> call[1][2], H_c |-> call[1][3],
   W_max |-> call[1][4], items |-> call[2], volume_capacity |-> 0,
   unfit_items |-> << >>, sorted_items |-> << >>, containers |-> << >>,
   idx |-> 0, scan |-> 0, added |-> FALSE, result |-> Pending]

\* the frame of the running call
Frame ==
  [pc |-> pc, L_c |-> L_c, W_c |-> W_c, H_c |-> H_c, W_max |-> W_max,
   items |-> items, volume_capacity |-> volume_capacity,
   unfit_items |-> unfit_items, sorted_items |-> sorted_items,
   containers |-> containers, idx |-> idx, scan |-> scan, added |-> added,
   result |-> result]

InitPair ==
  \E pair \in CallPairs :
    /\ pc = "call"
    /\ L_c = pair[1][1][1]
    /\ W_c = pair[1][1][2]
    /\ H_c = pair[1][1][3]
    /\ W_max = pair[1][1][4]
    /\ items = pair[1][2]
    /\ volume_capacity = 0
    /\ unfit_items = << >>
    /\ sorted_items = << >>
    /\ containers = << >>
    /\ idx = 0
    /\ scan = 0
    /\ added = FALSE
    /\ result = Pending
    /\ parked = NewFrame(pair[2])
    /\ app = NoApp

\* variant of Switch: containers is one list of the module, not a local of
\* the call, so it stays where it is when the other call resumes
SwitchSharedContainers ==
  /\ parked.pc # "none"
  /\ parked' = Frame
  /\ UNCHANGED app
  /\ pc' = parked.pc
  /\ L_c' = parked.L_c
  /\ W_c' = parked.W_c
  /\ H_c' = parked.H_c
  /\ W_max' = parked.W_max
  /\ items' = parked.items
  /\ volume_capacity' = parked.volume_capacity
  /\ unfit_items' = parked.unfit_items
  /\ sorted_items' = parked.sorted_items
  /\ containers' = containers
  /\ idx' = parked.idx
  /\ scan' = parked.scan
  /\ added' = parked.added
  /\ result' = parked.result

\* lines 4-48: the running call is left where it is, with its arguments and
\* locals, and the other call resumes with its own
Switch ==
  /\ parked.pc # "none"
  /\ parked' = Frame
  /\ UNCHANGED app
  /\ pc' = parked.pc
  /\ L_c' = parked.L_c
  /\ W_c' = parked.W_c
  /\ H_c' = parked.H_c
  /\ W_max' = parked.W_max
  /\ items' = parked.items
  /\ volume_capacity' = parked.volume_capacity
  /\ unfit_items' = parked.unfit_items
  /\ sorted_items' = parked.sorted_items
  /\ containers' = parked.containers
  /\ idx' = parked.idx
  /\ scan' = parked.scan
  /\ added' = parked.added
  /\ result' = parked.result

NextPair ==
  \/ Annotate
  \/ Classify
  \/ ReturnUnfit
  \/ Sort
  \/ NextItem
  \/ ScanSkip
  \/ ScanPlace
  \/ ScanEnd
  \/ OpenContainer
  \/ KeepContainers
  \/ ReturnContainers
  \/ Switch

SpecPair == InitPair /\ [][NextPair]_vars

(***************************************************************************)
(* pack_items as a function of its arguments: what a call that runs        *)
(* undisturbed returns.                                                    *)
(***************************************************************************)
\* lines 30-47: the containers after one item was placed, scanning from q
RECURSIVE PlaceFrom(_, _, _, _, _)
PlaceFrom(cs, q, item, cap, wmax) ==
  IF q > Len(cs)
  THEN Append(cs, [id |-> Len(cs) + 1, items |-> << item.id >>,
                   current_volume |-> item.volume,
                   current_weight |-> item.weight,
                   volume_capacity |-> cap, weight_capacity |-> wmax])
  ELSE IF /\ cs[q].current_volume + item.volume <= cap
          /\ cs[q].current_weight + item.weight <= wmax
       THEN [cs EXCEPT ![q] = [@ EXCEPT !.items = Append(@, item.id),
                                        !.current_volume = @ + item.volume,
                                        !.current_weight = @ + item.weight]]
       ELSE PlaceFrom(cs, q + 1, item, cap, wmax)

\* lines 27-47: the containers after the items of s, from the k-th on, were
\* placed
RECURSIVE PlaceAll(_, _, _, _, _)
PlaceAll(cs, s, k, cap, wmax) ==
  IF k > Len(s) THEN cs
  ELSE PlaceAll(PlaceFrom(cs, 1, s[k], cap, wmax), s, k + 1, cap, wmax)

\* lines 18-48
PackItems(Lc, Wc, Hc, Wmax, its) ==
  LET annotated == [k \in 1 .. Len(its) |-> WithVolume(its[k])]
      unfit == SelectSeq(annotated,
                         LAMBDA it : it.length > Lc \/ it.width > Wc
                                       \/ it.height > Hc)
  IN  IF unfit # << >>
      THEN [returned |-> TRUE, none |-> TRUE, containers |-> << >>,
            unfit_items |-> unfit]
      ELSE [returned |-> TRUE, none |-> FALSE,
            containers |-> PlaceAll(<< >>, SortedDesc(annotated), 1,
                                    Lc * Wc * Hc, Wmax),
            unfit_items |-> << >>]

(***************************************************************************)
(* The page: lines 56-117.  The widgets hold the container values and the  *)
(* item table; a click on "Run Packing Algorithm" runs the handler, which  *)
(* refuses, or calls pack_items and shows what it returned.                *)
(***************************************************************************)
\* lines 58-65: number_input with min_value=0.0 lets zero through
AppContainers ==
  { c \in ContainerSpecs : c[1] >= 0 /\ c[2] >= 0 /\ c[3] >= 0 /\ c[4] >= 0 }
    \cup { <<2, 2, 1, 0>> }

\* lines 77-93: the rows of the data editor, columns id, length, width,
\* height, weight; the numeric columns have min_value=0.0, rows can be
\* deleted down to none
AppTables ==
  { [k \in 1 .. Len(list) |->
       << list[k].id, list[k].length, list[k].width, list[k].height,
          list[k].weight >>] : list \in ItemLists }

\* line 102: items_df.to_dict('records')
ToRecords(df) ==
  [k \in 1 .. Len(df) |->
     [id |-> df[k][1], length |-> df[k][2], width |-> df[k][3],
      height |-> df[k][4], weight |-> df[k][5]]]

InitApp ==
  /\ \E c \in AppContainers, df \in AppTables :
       app = [stage |-> "ready", container_length |-> c[1],
              container_width |-> c[2], container_height |-> c[3],
              container_weight_capacity |-> c[4], items_df |-> df,
              shown |-> << >>]
  /\ pc = "idle"
  /\ L_c = 0
  /\ W_c = 0
  /\ H_c = 0
  /\ W_max = 0
  /\ items = << >>
  /\ volume_capacity = 0
  /\ unfit_items = << >>
  /\ sorted_items = << >>
  /\ containers = << >>
  /\ idx = 0
  /\ scan = 0
  /\ added = FALSE
  /\ result = Pending
  /\ parked = NoFrame

\* line 97: the test on the container widgets
ContainerRejected ==
  \/ app.container_length <= 0 \/ app.container_width <= 0
  \/ app.container_height <= 0 \/ app.container_weight_capacity <= 0

\* lines 96-98: st.error("Container dimensions and weight capacity must be
\* positive.")
ClickContainerError ==
  /\ app.stage = "ready"
  /\ ContainerRejected
  /\ app' = [app EXCEPT !.stage = "error_container"]
  /\ UNCHANGED <<pc, L_c, W_c, H_c, W_max, items, volume_capacity,
                 unfit_items, sorted_items, containers, idx, scan, added,
                 result, parked>>

\* lines 99-100: st.error("Please add at least one item.")
ClickEmptyError ==
  /\ app.stage = "ready"
  /\ ~ ContainerRejected
  /\ app.items_df = << >>
  /\ app' = [app EXCEPT !.stage = "error_empty"]
  /\ UNCHANGED <<pc, L_c, W_c, H_c, W_max, items, volume_capacity,
                 unfit_items, sorted_items, containers, idx, scan, added,
                 result, parked>>

\* lines 101-104: the call of pack_items
ClickCall ==
  /\ app.stage = "ready"
  /\ ~ ContainerRejected
  /\ app.items_df # << >>
  /\ app' = [app EXCEPT !.stage = "calling"]
  /\ pc' = "call"
  /\ L_c' = app.container_length
  /\ W_c' = app.container_width
  /\ H_c' = app.container_height
  /\ W_max' = app.container_weight_capacity
  /\ items' = ToRecords(app.items_df)
  /\ UNCHANGED <<volume_capacity, unfit_items, sorted_items, containers, idx,
                 scan, added, result, parked>>

\* lines 105-108: the ids of the unfit items are shown as an error
ShowUnfit ==
  /\ app.stage = "calling"
  /\ pc = "done"
  /\ result.unfit_items # << >>
  /\ app' = [app EXCEPT !.stage = "shown_unfit",
                        !.shown = [k \in 1 .. Len(result.unfit_items) |->
                                     result.unfit_items[k].id]]
  /\ UNCHANGED <<pc, L_c, W_c, H_c, W_max, items, volume_capacity,
                 unfit_items, sorted_items, containers, idx, scan, added,
                 result, parked>>

\* lines 109-117: the packing plan is shown
ShowPlan ==
  /\ app.stage = "calling"
  /\ pc = "done"
  /\ result.unfit_items = << >>
  /\ app' = [app EXCEPT !.stage = "shown_plan",
                        !.shown = result.containers]
  /\ UNCHANGED <<pc, L_c, W_c, H_c, W_max, items, volume_capacity,
                 unfit_items, sorted_items, containers, idx, scan, added,
                 result, parked>>

NextApp ==
  \/ ClickContainerError
  \/ ClickEmptyError
  \/ ClickCall
  \/ Annotate
  \/ Classify
  \/ ReturnUnfit
  \/ Sort
  \/ NextItem
  \/ ScanSkip
  \/ ScanPlace
  \/ ScanEnd
  \/ OpenContainer
  \/ KeepContainers
  \/ ReturnContainers
  \/ ShowUnfit
  \/ ShowPlan

SpecApp == InitApp /\ [][NextApp]_vars

\* the call runs to its end once entered: the body is straight-line code
\* and loops over finite lists, nothing makes it wait
\* the ids play no part in the control flow: the calls whose ids are unique
InitFair ==
  /\ Init
  /\ \A k, m \in DOMAIN items : items[k].id = items[m].id => k = m

FairSpec == InitFair /\ [][Next]_vars /\ WF_vars(Next)

(***************************************************************************)
(* A second run on the same list.  The caller keeps the list it passed,    *)
(* whose dicts now carry the 'volume' key written at line 20, and passes   *)
(* it again; between the calls it may have written other numbers under     *)
(* that key.  `result' keeps what the earlier call returned until the new  *)
(* call returns.                                                           *)
(***************************************************************************)
\* what the caller does to the 'volume' keys between the two calls
VolumeEdits == {"kept", "stale"}

\* the list passed again: as the first call left it, or with each volume
\* replaced by a number that is not the item's volume and rises with the
\* position
PassedAgain(edit, list) ==
  [k \in 1 .. Len(list) |->
     IF edit = "kept" THEN list[k]
                      ELSE [list[k] EXCEPT !.volume = list[k].volume + k]]

\* lines 4-17: a new call with the same container and the same list object
CallAgain ==
  /\ pc = "done"
  /\ \E edit \in VolumeEdits : items' = PassedAgain(edit, items)
  /\ pc' = "call"
  /\ volume_capacity' = 0
  /\ unfit_items' = << >>
  /\ sorted_items' = << >>
  /\ containers' = << >>
  /\ idx' = 0
  /\ scan' = 0
  /\ added' = FALSE
  /\ UNCHANGED <<parked, app>>
  /\ UNCHANGED <<L_c, W_c, H_c, W_max, result>>

NextAgain ==
  \/ Annotate
  \/ Classify
  \/ ReturnUnfit
  \/ Sort
  \/ NextItem
  \/ ScanSkip
  \/ ScanPlace
  \/ ScanEnd
  \/ OpenContainer
  \/ KeepContainers
  \/ ReturnContainers
  \/ CallAgain

SpecAgain == InitFair /\ [][NextAgain]_vars

(***************************************************************************)
(* Vocabulary of the properties, stated on the inputs rather than on the   *)
(* routine's helpers.                                                      *)
(***************************************************************************)
Vol(item) == item.length * item.width * item.height

Capacity == L_c * W_c * H_c

Returned == result.returned

ReturnedNone == Returned /\ result.none

ReturnedList == Returned /\ ~ result.none

\* the container lists to look at: the one under construction, and the
\* returned one
ContainerLists ==
  {containers} \cup (IF ReturnedList THEN {result.containers} ELSE {})

PositiveInputs ==
  /\ L_c > 0 /\ W_c > 0 /\ H_c > 0 /\ W_max > 0
  /\ \A k \in DOMAIN items :
       /\ items[k].length > 0 /\ items[k].width > 0 /\ items[k].height > 0
       /\ items[k].weight > 0

UniqueIds ==
  \A k, m \in DOMAIN items : items[k].id = items[m].id => k = m

\* an item sticks out of the container on its own axis
Exceeds(item) ==
  item.length > L_c \/ item.width > W_c \/ item.height > H_c

SomeExceeds == \E k \in DOMAIN items : Exceeds(items[k])

\* the places (container, position) at which id x is listed
Places(cs, x) ==
  { p \in (DOMAIN cs) \X (1 .. MaxItems + 1) :
      p[2] <= Len(cs[p[1]].items) /\ cs[p[1]].items[p[2]] = x }

\* C1: with strictly positive container dimensions, weight capacity, item
\* dimensions and item weights, every container, during placement and in
\* the returned list, has current_volume <= volume_capacity and
\* current_weight <= weight_capacity.
C1_CapacityInvariant ==
  PositiveInputs =>
    \A cs \in ContainerLists : \A k \in DOMAIN cs :
      /\ cs[k].current_volume <= Capacity
      /\ cs[k].current_weight <= W_max

\* C2: when the run returns an empty unfit list and the input ids are
\* unique, every input id is listed exactly once over all the returned
\* containers, and no other id is listed.
C2_Completeness ==
  (ReturnedList /\ result.unfit_items = << >> /\ UniqueIds) =>
    /\ \A k \in DOMAIN items :
         Cardinality(Places(result.containers, items[k].id)) = 1
    /\ \A c \in DOMAIN result.containers :
         \A q \in DOMAIN result.containers[c].items :
           \E k \in DOMAIN items :
             items[k].id = result.containers[c].items[q]

C2_Witness ==
  /\ ReturnedList
  /\ UniqueIds
  /\ Len(items) = 3
  /\ Len(result.containers) = 2

\* C3: if some input item is unfit, no container is ever created, the run
\* returns None for the containers and the unfit list holds exactly the
\* unfit items, in input order.
C3_FailFast ==
  SomeExceeds =>
    /\ containers = << >>
    /\ Returned =>
         /\ ReturnedNone
         /\ result.unfit_items = SelectSeq(items, Exceeds)

C3_Witness ==
  /\ Returned
  /\ \E k, m \in DOMAIN items : Exceeds(items[k]) /\ ~ Exceeds(items[m])
  /\ Len(result.unfit_items) < Len(items)

\* C4: once classified, an item is in the unfit list if and only if its
\* length exceeds L_c, its width W_c or its height H_c, each axis compared
\* with the same axis only and strictly.
C4_UnfitRule ==
  pc \notin {"call", "classify"} =>
    \A k \in DOMAIN items :
      (\E u \in DOMAIN unfit_items : unfit_items[u] = items[k])
        <=> (items[k].length > L_c \/ items[k].width > W_c
               \/ items[k].height > H_c)

\* an item that is unfit though it fits with length and width swapped, next
\* to an item that has exactly the container's dimensions and is fit
C4_Witness ==
  /\ pc = "done"
  /\ \E k, m \in DOMAIN items :
       /\ \E u \in DOMAIN unfit_items : unfit_items[u] = items[k]
       /\ items[k].length <= W_c /\ items[k].width <= L_c
       /\ items[k].height <= H_c
       /\ items[m].length = L_c /\ items[m].width = W_c
       /\ items[m].height = H_c
       /\ \A u \in DOMAIN unfit_items : unfit_items[u] # items[m]

\* C5: when the volume capacity L_c * W_c * H_c is <= 0, the run reports
\* every input item as unfit and returns no containers.
C5_DegenerateCapacity ==
  (Capacity <= 0) =>
    /\ containers = << >>
    /\ Returned =>
         /\ result.containers = << >>
         /\ result.unfit_items = items

\* the item the outer loop is working on
Current == sorted_items[idx]

\* container c has room for the item, by the capacities of the call
HasRoom(c, item) ==
  /\ c.current_volume + Vol(item) <= Capacity
  /\ c.current_weight + item.weight <= W_max

\* a step that puts the current item into the open container at position p
PlacedAt(p) ==
  /\ Len(containers') = Len(containers)
  /\ containers'[p] # containers[p]
  /\ containers'[p].items = Append(containers[p].items, Current.id)
  /\ \A q \in DOMAIN containers : q # p => containers'[q] = containers[q]

\* a step that opens a container
Opened == Len(containers') = Len(containers) + 1

\* C6: whenever an item goes into an open container, that container is the
\* first one in creation order that has room for it in volume and in weight;
\* the containers before it have no room, and no container changes place.
C6_FirstFit ==
  [][ (pc = "scan" /\ containers' # containers) =>
        \E p \in DOMAIN containers :
          /\ PlacedAt(p)
          /\ HasRoom(containers[p], Current)
          /\ \A q \in 1 .. (p - 1) : ~ HasRoom(containers[q], Current)
          /\ \A q \in DOMAIN containers : containers'[q].id = containers[q].id
    ]_vars

\* the item went into container 1 while container 2 had room for it too
C6_Witness ==
  /\ pc = "after_scan"
  /\ added
  /\ scan = 1
  /\ Len(containers) >= 2
  /\ HasRoom(containers[2], Current)

\* C7: a container is opened for an item exactly when no open container has
\* room for it in volume and weight; it is appended behind the existing
\* ones, which stay as they are, and holds that item alone with the item's
\* volume and weight as totals.  Two items of volume 600 in a container of
\* volume 1000 end in 2 containers.
C7_OpenWhenNoneFits ==
  [][ /\ (pc = "scan" /\ pc' = "after_scan" /\ containers' = containers) =>
           \A q \in DOMAIN containers : ~ HasRoom(containers[q], Current)
      /\ (pc = "after_scan" /\ ~ added) => Opened
      /\ Opened =>
           /\ \A q \in DOMAIN containers : ~ HasRoom(containers[q], Current)
           /\ SubSeq(containers', 1, Len(containers)) = containers
           /\ containers'[Len(containers')].items = << Current.id >>
           /\ containers'[Len(containers')].current_volume = Vol(Current)
           /\ containers'[Len(containers')].current_weight = Current.weight
      /\ (Returned' /\ Len(items) = 2 /\ Capacity = 1000
            /\ \A k \in DOMAIN items : Vol(items[k]) = 600) =>
           Len(result'.containers) = 2
    ]_vars

\* the second item of volume 600 got its own container
C7_Witness ==
  /\ ReturnedList
  /\ Capacity = 1000
  /\ Len(items) = 2
  /\ \A k \in DOMAIN items : Vol(items[k]) = 600 /\ items[k].weight = 10
  /\ Len(result.containers) = 2
  /\ result.containers[1].items = << 1 >>
  /\ result.containers[2].items = << 2 >>

\* the elements of s that have volume v, in the order of s
OfVolume(s, v) == SelectSeq(s, LAMBDA x : Vol(x) = v)

\* C8: when all items are fit, the processing order has non-increasing
\* volume and keeps the input order among items of equal volume; the items
\* are placed in that order, so a run that ends with a single container
\* lists the ids in that order ([B, C, A] for the items A 24, B 125, C 27).
C8_ProcessingOrder ==
  pc \in {"next_item", "scan", "after_scan"} \/ ReturnedList =>
    /\ Len(sorted_items) = Len(items)
    /\ \A k \in 1 .. (Len(sorted_items) - 1) :
         Vol(sorted_items[k]) >= Vol(sorted_items[k + 1])
    /\ \A m \in DOMAIN items :
         OfVolume(sorted_items, Vol(items[m])) = OfVolume(items, Vol(items[m]))
    /\ \A cs \in ContainerLists : \A c \in DOMAIN cs :
         \A q \in DOMAIN cs[c].items :
           \E k \in 1 .. idx : /\ sorted_items[k].id = cs[c].items[q]
                               /\ (Len(cs) = 1 => k = q)

\* the scenario A(2,3,4), B(5,5,5), C(3,3,3): one container holding [B, C, A]
C8_Witness ==
  /\ ReturnedList
  /\ Len(items) = 3
  /\ Vol(items[1]) = 24 /\ Vol(items[2]) = 125 /\ Vol(items[3]) = 27
  /\ Len(result.containers) = 1
  /\ result.containers[1].items = << items[2].id, items[3].id, items[1].id >>

\* two items of equal volume and different ids, processed in input order
C8_WitnessTie ==
  /\ ReturnedList
  /\ Len(items) = 3
  /\ Vol(items[1]) = Vol(items[3])
  /\ Vol(items[2]) > Vol(items[1])
  /\ UniqueIds
  /\ Len(result.containers) = 1
  /\ result.containers[1].items = << items[2].id, items[1].id, items[3].id >>

\* C9: at every moment of the run and in the returned list, the container
\* at position k of the list (counted from 1) has id k.
C9_ContainerIds ==
  \A cs \in ContainerLists : \A k \in DOMAIN cs : cs[k].id = k

C9_Witness ==
  /\ ReturnedList
  /\ Len(result.containers) = 3

\* C10: an item whose volume equals the room left in an open container, its
\* weight being within the weight left, or whose weight equals the weight
\* left, its volume being within the room left, does not get a new
\* container; a single fit item of volume equal to the capacity and weight
\* equal to W_max ends alone in one container within both bounds.
C10_BoundaryInclusive ==
  [][ /\ Opened =>
           \A q \in DOMAIN containers :
             ~ ( /\ Vol(Current) <= Capacity - containers[q].current_volume
                 /\ Current.weight <= W_max - containers[q].current_weight
                 /\ \/ Vol(Current) = Capacity - containers[q].current_volume
                    \/ Current.weight = W_max - containers[q].current_weight )
      /\ (Returned' /\ Len(items) = 1 /\ ~ Exceeds(items[1])
            /\ Vol(items[1]) = Capacity /\ items[1].weight = W_max) =>
           /\ ~ result'.none
           /\ Len(result'.containers) = 1
           /\ result'.containers[1].items = << items[1].id >>
           /\ result'.containers[1].current_volume <= Capacity
           /\ result'.containers[1].current_weight <= W_max
    ]_vars

\* a second item has just filled a container to both of its capacities
C10_Witness ==
  /\ pc = "after_scan"
  /\ added
  /\ Len(containers[scan].items) >= 2
  /\ containers[scan].current_volume = Capacity
  /\ containers[scan].current_weight = W_max
  /\ Vol(Current) > 0

\* C13: the run terminates for every explored input, zero and negative
\* capacities included; the outer loop takes the items one at a time and
\* has taken each of them once when the list is returned; there are never
\* more containers than input items.
C13_TerminatesBounded ==
  /\ <>(pc = "done")
  /\ [](Len(containers) <= Len(items))
  /\ [](ReturnedList => idx = Len(items) /\ Len(sorted_items) = Len(items))
  /\ [][idx' = idx \/ (idx' = idx + 1 /\ idx' <= Len(items))]_vars

\* a run with zero weight capacity that ended with one container per item
C13_Witness ==
  /\ pc = "done"
  /\ W_max <= 0 \/ Capacity <= 0
  /\ Len(items) = MaxItems
  /\ ReturnedList
  /\ Len(result.containers) = Len(items)

\* C14: a call with an empty item list returns an empty container list (a
\* list, not None) and an empty unfit list.
C14_EmptyInput ==
  (Returned /\ items = << >>) =>
    /\ ~ result.none
    /\ result.containers = << >>
    /\ result.unfit_items = << >>

C14_Witness ==
  /\ Returned
  /\ items = << >>
  /\ ReturnedList
  /\ idx = 0

\* C15: a call changes nothing but its return values: the caller's item
\* list is, at every step, what it was before.
C15_SideEffectFree == [][items' = items]_vars

\* the fields the caller sets
Raw(item) ==
  [id |-> item.id, length |-> item.length, width |-> item.width,
   height |-> item.height, weight |-> item.weight]

\* C16: no step changes the id, length, width, height or weight of an item
\* of the caller's list, nor the length or the order of that list.
C16_RawFieldsKept ==
  [][ /\ Len(items') = Len(items)
      /\ \A k \in DOMAIN items : Raw(items'[k]) = Raw(items[k]) ]_vars

\* a returned run whose processing order differs from the caller's order
C16_Witness ==
  /\ ReturnedList
  /\ Len(items) >= 2
  /\ sorted_items # items
  /\ Vol(items[1]) < Vol(items[Len(items)])

\* the caller broke the contract: an id used twice, or a dimension or a
\* weight that is not positive
InvalidInput ==
  \/ ~ UniqueIds
  \/ \E k \in DOMAIN items :
       \/ items[k].length <= 0 \/ items[k].width <= 0
       \/ items[k].height <= 0 \/ items[k].weight <= 0

\* C17: a call with invalid input does not return a packing plan.
C17_InvalidRejected == InvalidInput => ~ ReturnedList

\* C18: a finished call has returned, with one of two shapes: a list of
\* containers and an empty unfit list, or None and a non-empty unfit list.
C18_OutcomeExclusive ==
  /\ pc = "done" <=> Returned
  /\ Returned =>
       \/ ~ result.none /\ result.unfit_items = << >>
       \/ /\ result.none
          /\ result.containers = << >>
          /\ result.unfit_items # << >>
  /\ ~ (result.containers # << >> /\ result.unfit_items # << >>)

C18_Witness ==
  /\ ReturnedNone
  /\ Len(result.unfit_items) >= 2
  /\ Len(result.unfit_items) = Len(items)

\* C19: an open container stays at its place in the list with its id and
\* its capacities; a step leaves it as it is or appends the current item's
\* id at the end of its list and adds that item's volume and weight to its
\* totals; a step changes at most one container.
C19_LifecycleMonotone ==
  [][ /\ Len(containers') >= Len(containers)
      /\ \A q \in DOMAIN containers :
           \/ containers'[q] = containers[q]
           \/ /\ containers'[q].id = containers[q].id
              /\ containers'[q].volume_capacity = containers[q].volume_capacity
              /\ containers'[q].weight_capacity = containers[q].weight_capacity
              /\ containers'[q].items = Append(containers[q].items, Current.id)
              /\ containers'[q].current_volume
                   = containers[q].current_volume + Vol(Current)
              /\ containers'[q].current_weight
                   = containers[q].current_weight + Current.weight
              /\ \A r \in DOMAIN containers :
                   r # q => containers'[r] = containers[r]
    ]_vars

\* the second container has just taken a second item
C19_Witness ==
  /\ pc = "after_scan"
  /\ added
  /\ scan = 2
  /\ Len(containers[2].items) = 2
  /\ Len(containers[1].items) >= 1

\* no two items of the input can share a container
PairwiseTooBig ==
  \A k, m \in DOMAIN items :
    k # m => \/ Vol(items[k]) + Vol(items[m]) > Capacity
             \/ items[k].weight + items[m].weight > W_max

\* C21: for a fit batch in which no two items can share a container, the
\* call returns as many containers as there are items, one item in each.
C21_OneContainerEach ==
  (ReturnedList /\ PairwiseTooBig) =>
    /\ Len(result.containers) = Len(items)
    /\ \A c \in DOMAIN result.containers :
         Len(result.containers[c].items) = 1

\* three items that fit the container one by one, in three containers
C21_Witness ==
  /\ ReturnedList
  /\ PairwiseTooBig
  /\ Len(items) = 3
  /\ Capacity > 0
  /\ \A k \in DOMAIN items : items[k].weight <= W_max /\ Vol(items[k]) > 0
  /\ Len(result.containers) = 3

\* C22: every container, from the step that opens it to the returned list,
\* carries volume_capacity = L_c * W_c * H_c and weight_capacity = W_max.
C22_ReportedCapacities ==
  \A cs \in ContainerLists : \A c \in DOMAIN cs :
    /\ cs[c].volume_capacity = L_c * W_c * H_c
    /\ cs[c].weight_capacity = W_max

C22_Witness ==
  /\ ReturnedList
  /\ Len(result.containers) >= 2
  /\ Len(result.containers[1].items) >= 2
  /\ result.containers[1].volume_capacity = result.containers[2].volume_capacity
  /\ result.containers[1].volume_capacity > 0

\* the input item that has the id (ids unique)
ItemOfId(x) == items[CHOOSE k \in DOMAIN items : items[k].id = x]

\* its place in the input and in the processing order
InputPos(x) == CHOOSE k \in DOMAIN items : items[k].id = x

SortedPos(x) == CHOOSE k \in DOMAIN sorted_items : sorted_items[k].id = x

RECURSIVE VolumeOf(_)
VolumeOf(ids) ==
  IF ids = << >> THEN 0 ELSE Vol(ItemOfId(Head(ids))) + VolumeOf(Tail(ids))

RECURSIVE WeightOf(_)
WeightOf(ids) ==
  IF ids = << >> THEN 0 ELSE ItemOfId(Head(ids)).weight + WeightOf(Tail(ids))

\* C24: with unique ids, at every moment and in the returned list, a
\* container's current_volume is the sum of length * width * height of the
\* items it lists, and its current_weight the sum of their weights.
C24_TotalsExact ==
  UniqueIds =>
    \A cs \in ContainerLists : \A c \in DOMAIN cs :
      /\ cs[c].current_volume = VolumeOf(cs[c].items)
      /\ cs[c].current_weight = WeightOf(cs[c].items)

C24_Witness ==
  /\ ReturnedList
  /\ UniqueIds
  /\ \E c \in DOMAIN result.containers :
       /\ Len(result.containers[c].items) = 3
       /\ result.containers[c].current_volume > result.containers[c].current_weight

NonNegativeItems ==
  \A k \in DOMAIN items : Vol(items[k]) >= 0 /\ items[k].weight >= 0

\* what container c held when the item with id x was processed
HeldBefore(c, x) ==
  SelectSeq(c.items, LAMBDA y : SortedPos(y) < SortedPos(x))

\* C25: with non-negative volumes and weights (and unique ids), in the
\* returned list, an item x of container j could not go into an earlier
\* container i: what i held when x was processed, plus x, exceeds the
\* volume capacity or the weight capacity; so does the final content of i
\* plus the first item of j.
C25_EarlierHadNoRoom ==
  (ReturnedList /\ UniqueIds /\ NonNegativeItems) =>
    \A j \in DOMAIN result.containers : \A i \in 1 .. (j - 1) :
      /\ \A q \in DOMAIN result.containers[j].items :
           LET x == result.containers[j].items[q]
               held == HeldBefore(result.containers[i], x)
           IN  \/ VolumeOf(held) + Vol(ItemOfId(x)) > Capacity
               \/ WeightOf(held) + ItemOfId(x).weight > W_max
      /\ LET first == ItemOfId(result.containers[j].items[1])
         IN  \/ result.containers[i].current_volume + Vol(first) > Capacity
             \/ result.containers[i].current_weight + first.weight > W_max

\* container 1 took its second item after container 2 had been opened
C25_Witness ==
  /\ ReturnedList
  /\ UniqueIds
  /\ Len(result.containers) = 2
  /\ Len(result.containers[1].items) = 2
  /\ SortedPos(result.containers[1].items[2])
       > SortedPos(result.containers[2].items[1])

\* C26: a container that holds two or more items is within both
\* capacities, whatever the input; a container whose opening item alone
\* exceeds the volume or the weight capacity holds that item only
\* (non-negative sizes, unique ids).
C26_ViolationsAreSingletons ==
  \A cs \in ContainerLists : \A c \in DOMAIN cs :
    /\ Len(cs[c].items) >= 2 =>
         /\ cs[c].current_volume <= Capacity
         /\ cs[c].current_weight <= W_max
    /\ (UniqueIds /\ NonNegativeItems
          /\ \/ Vol(ItemOfId(cs[c].items[1])) > Capacity
             \/ ItemOfId(cs[c].items[1]).weight > W_max) =>
         Len(cs[c].items) = 1

\* an overweight container that a later, lighter item passed by although
\* there was room for it in volume
C26_Witness ==
  /\ ReturnedList
  /\ UniqueIds
  /\ Len(result.containers) >= 2
  /\ result.containers[1].current_weight > W_max
  /\ Len(result.containers[1].items) = 1
  /\ result.containers[1].current_volume
       + result.containers[2].current_volume <= Capacity

\* C27: in the returned list (unique ids), the ids of a container are in
\* non-increasing order of volume, equal volumes in input order, and the
\* first items of containers 1, 2, ..., k are in non-increasing order of
\* volume.
C27_OrderInResult ==
  (ReturnedList /\ UniqueIds) =>
    /\ \A c \in DOMAIN result.containers :
         \A q \in 1 .. (Len(result.containers[c].items) - 1) :
           LET a == result.containers[c].items[q]
               b == result.containers[c].items[q + 1]
           IN  \/ Vol(ItemOfId(a)) > Vol(ItemOfId(b))
               \/ /\ Vol(ItemOfId(a)) = Vol(ItemOfId(b))
                  /\ InputPos(a) < InputPos(b)
    /\ \A c \in 1 .. (Len(result.containers) - 1) :
         Vol(ItemOfId(result.containers[c].items[1]))
           >= Vol(ItemOfId(result.containers[c + 1].items[1]))

\* two items of equal volume in container 1, a smaller one opening
\* container 2
C27_Witness ==
  /\ ReturnedList
  /\ UniqueIds
  /\ Len(result.containers) = 2
  /\ Len(result.containers[1].items) = 2
  /\ Vol(ItemOfId(result.containers[1].items[1]))
       = Vol(ItemOfId(result.containers[1].items[2]))
  /\ Vol(ItemOfId(result.containers[2].items[1]))
       < Vol(ItemOfId(result.containers[1].items[1]))

(***************************************************************************)
(* Properties of two calls, checked under SpecPair.                        *)
(***************************************************************************)
RawList(s) == [k \in 1 .. Len(s) |-> Raw(s[k])]

\* the item is in the unfit list u (ids are unique within a call here)
Listed(u, item) == \E j \in DOMAIN u : u[j].id = item.id

Classified(f) == f.pc \notin {"none", "call", "classify"}

SameDims(a, b) ==
  a.length = b.length /\ a.width = b.width /\ a.height = b.height

\* C11: whether an item is reported unfit depends on its three dimensions
\* and the container's three dimensions only: two items of equal dimensions,
\* in calls with equal container dimensions, are classified alike whatever
\* their weights, the weight capacities and the other items are; an item
\* heavier than W_max whose dimensions fit is not reported unfit.
C11_UnfitIndependent ==
  /\ Classified(Frame) =>
       \A k \in DOMAIN items :
         (items[k].weight > W_max /\ ~ Exceeds(items[k]))
           => ~ Listed(unfit_items, items[k])
  /\ (Classified(Frame) /\ Classified(parked)
        /\ L_c = parked.L_c /\ W_c = parked.W_c /\ H_c = parked.H_c) =>
       \A k \in DOMAIN items : \A m \in DOMAIN parked.items :
         SameDims(items[k], parked.items[m]) =>
           (Listed(unfit_items, items[k])
              <=> Listed(parked.unfit_items, parked.items[m]))

\* two calls, different weight capacities, different item lists; an item
\* heavier than its call's W_max and one of the same dimensions and another
\* weight in the other call, neither reported unfit
C11_Witness ==
  /\ Classified(Frame) /\ Classified(parked)
  /\ L_c = parked.L_c /\ W_c = parked.W_c /\ H_c = parked.H_c
  /\ W_max # parked.W_max
  /\ Len(items) # Len(parked.items)
  /\ \E k \in DOMAIN items : \E m \in DOMAIN parked.items :
       /\ SameDims(items[k], parked.items[m])
       /\ items[k].weight > W_max
       /\ items[k].weight # parked.items[m].weight
       /\ ~ Listed(unfit_items, items[k])
       /\ ~ Listed(parked.unfit_items, parked.items[m])

SameArguments ==
  /\ L_c = parked.L_c /\ W_c = parked.W_c /\ H_c = parked.H_c
  /\ W_max = parked.W_max
  /\ RawList(items) = RawList(parked.items)

\* C12: two calls with equal container parameters and equal item sequences
\* return equal results: the same containers (ids, item ids, totals) and
\* the same unfit list.
C12_Deterministic ==
  (Returned /\ parked.pc = "done" /\ SameArguments) => result = parked.result

\* two equal calls that returned, on a list with two items of equal volume
C12_Witness ==
  /\ ReturnedList
  /\ parked.pc = "done"
  /\ SameArguments
  /\ Len(items) >= 2
  /\ Vol(items[1]) = Vol(items[2])
  /\ items[1].weight # items[2].weight
  /\ result.containers # << >>

\* C20: whatever the interleaving of the two calls, each returns what the
\* call returns when it runs undisturbed.
C20_IndependentCalls ==
  /\ Returned =>
       result = PackItems(L_c, W_c, H_c, W_max, RawList(items))
  /\ parked.pc = "done" =>
       parked.result = PackItems(parked.L_c, parked.W_c, parked.H_c,
                                 parked.W_max, RawList(parked.items))

\* a call returned two containers while the other call was in the middle of
\* its placement loop
C20_Witness ==
  /\ ReturnedList
  /\ Len(result.containers) >= 2
  /\ parked.pc = "scan"
  /\ parked.containers # << >>
  /\ parked.idx < Len(parked.items)

\* the two calls got the same container and the same items, in any order
SameItemsAnyOrder ==
  /\ L_c = parked.L_c /\ W_c = parked.W_c /\ H_c = parked.H_c
  /\ W_max = parked.W_max
  /\ Len(items) = Len(parked.items)
  /\ \A k \in DOMAIN items :
       \E m \in DOMAIN parked.items : Raw(items[k]) = Raw(parked.items[m])
  /\ \A m \in DOMAIN parked.items :
       \E k \in DOMAIN items : Raw(items[k]) = Raw(parked.items[m])

DistinctVolumes ==
  \A k, m \in DOMAIN items : Vol(items[k]) = Vol(items[m]) => k = m

\* C28: two calls on a fit batch whose volumes are pairwise distinct, the
\* items given in different orders, return the same containers: ids, item
\* ids and totals.
C28_OrderIndependent ==
  (ReturnedList /\ parked.pc = "done" /\ SameItemsAnyOrder /\ DistinctVolumes)
    => /\ ~ parked.result.none
       /\ result.containers = parked.result.containers

\* two returned calls, the second with the items of the first reversed
C28_Witness ==
  /\ ReturnedList
  /\ parked.pc = "done"
  /\ SameItemsAnyOrder
  /\ DistinctVolumes
  /\ Len(items) >= 2
  /\ RawList(items) # RawList(parked.items)
  /\ result.containers # << >>
  /\ result.containers = parked.result.containers

(***************************************************************************)
(* Properties of the page, checked under SpecApp.                          *)
(***************************************************************************)
AppCalled == app.stage \in {"calling", "shown_unfit", "shown_plan"}

AppRefused == app.stage \in {"error_container", "error_empty"}

\* C23: the handler calls pack_items only when the three container
\* dimensions and the weight capacity are strictly positive, every row of
\* the item table has strictly positive dimensions and weight, and the
\* table has a row; otherwise it shows an error and does not call.
C23_PositivityGate ==
  /\ AppCalled =>
       /\ app.container_length > 0 /\ app.container_width > 0
       /\ app.container_height > 0 /\ app.container_weight_capacity > 0
       /\ app.items_df # << >>
       /\ \A k \in DOMAIN app.items_df :
            /\ app.items_df[k][2] > 0 /\ app.items_df[k][3] > 0
            /\ app.items_df[k][4] > 0 /\ app.items_df[k][5] > 0
  /\ AppRefused => pc = "idle"
  /\ app.stage \in {"ready", "error_container", "error_empty"} \/ AppCalled

(***************************************************************************)
(* Properties of a second run on the same list, checked under SpecAgain.   *)
(***************************************************************************)
\* the call now running was given a list that an earlier call annotated
SecondRun == result.returned /\ pc # "done"

\* C29: once line 20 has run, every item's volume is length * width *
\* height, whatever number the item carried into the call and whether the
\* call ends with unfit items or with containers; and a call on a list that
\* an earlier call annotated, stale volumes or not, returns what the earlier
\* call returned.
C29_VolumeRecomputed ==
  /\ [](pc # "call" =>
          \A k \in DOMAIN items : items[k].volume = Vol(items[k]))
  /\ [][(result.returned /\ pc' = "done" /\ pc # "done")
          => result' = result]_vars

\* a second run on a list whose first item is not the largest has placed
\* its last item and holds the containers the first run returned
C29_Witness ==
  /\ SecondRun
  /\ pc = "next_item"
  /\ idx = Len(sorted_items)
  /\ Len(items) >= 2
  /\ \E k \in DOMAIN items : Vol(items[k]) > Vol(items[1])
  /\ ~ result.none
  /\ containers = result.containers
  /\ containers # << >>

\* a second run that ended with unfit items, as the first one did
C29_WitnessUnfit ==
  /\ result.returned
  /\ result.none
  /\ pc = "check_unfit"
  /\ unfit_items = result.unfit_items
  /\ Len(items) >= 2

====
